---- MODULE Spec2Model ----
(***************************************************************************)
(* A model of the otelgrpcgw request-instrumentation middleware:           *)
(* NewMiddleware / newConfig / handler.configure build the handler, and    *)
(* handler.serveHTTP runs one request cycle (filters, context extraction,  *)
(* trust-boundary decision, tracer selection, span start, body / writer    *)
(* wrapping, downstream handler, span finalization, metric emission).      *)
(***************************************************************************)
EXTENDS Integers, Sequences, FiniteSets, TLC

VARIABLES
    globalTP,   \* otel's process-wide tracer provider  (otel.GetTracerProvider)
    globalMP,   \* otel's process-wide meter provider   (otel.GetMeterProvider)
    nreg,       \* number of provider registrations made by the host application
    built,      \* NewMiddleware has returned
    hostOpts,   \* the options the host application passed to NewMiddleware
    atBuild,    \* the process-wide providers when NewMiddleware ran
    m,          \* the handler struct filled in by handler.configure
    now,        \* the wall clock (time.Now)
    cy          \* the request cycles: one activation record of serveHTTP each

vars == <<globalTP, globalMP, nreg, built, hostOpts, atBuild, m, now, cy>>

----------------------------------------------------------------------------
(* Bounds of the model *)

\* number of options the host application passes to NewMiddleware
MaxOpts == 2
\* number of provider registrations the host application makes
MaxReg == 1
\* number of clock ticks while downstream handlers run
MaxTicks == 1
\* number of operations (reads, writes, labels) the downstream handler makes
MaxOps == 2
\* largest byte count one read or write moves
MaxChunk == 1

\* the wall clock when the program starts; every start-time override is earlier
StartClock == 2
\* calls of ContextWithStartTime the caller makes on one request context
MaxSets == 2

----------------------------------------------------------------------------
(* Values *)

Nil == <<>>
Some(x) == <<x>>

ScopeName == "github.com/crazyfrankie/otelgrpcgw"

\* the request cycles (goroutines running serveHTTP)
Cycles == {1}

\* the request cycles when two requests are in flight on the same middleware
ConcurrentCycles == {1, 2}

Paths == {"a", "b"}

\* error values of the underlying body / response writer; "EOF" is io.EOF
NoErr == "nil"
IOErrors == {"EOF", "E1", "E2"}

\* attribute key-values a handler or a metric-attributes function may produce
Attrs == {"x", "y"}

\* the no-op span trace.SpanFromContext returns for a context without a span
NoSpan == [valid |-> FALSE, remote |-> FALSE, tp |-> "tpNoop", id |-> "none"]
\* a recording span put into the request context by an outer instrumentation
LocalSpan == [valid |-> TRUE, remote |-> FALSE, tp |-> "tpOuter", id |-> "local"]
\* the span context a propagator reads from trace headers: remote, non-recording
RemoteSpan == [valid |-> TRUE, remote |-> TRUE, tp |-> "tpNoop", id |-> "remote"]

\* context.Background()
EmptyCtx == [span |-> NoSpan, start |-> Nil, labeler |-> Nil]

NilTracer == [provider |-> "nil", name |-> ""]

\* util.go: newTracer
newTracer(tp) == [provider |-> tp, name |-> ScopeName]

\* util.go: newMeter
newMeter(mp) == [provider |-> mp, name |-> ScopeName]

\* trace.SpanStartOption values
SpanOpt(o, s, n) == [o |-> o, s |-> s, n |-> n]
WithSpanKindServer == SpanOpt("SpanKind", "server", 0)
WithNewRoot == SpanOpt("NewRoot", "", 0)
WithLinks(sc) == SpanOpt("Links", sc.id, 0)
WithTimestamp(t) == SpanOpt("Timestamp", "", t)
WithAttributes(a) == SpanOpt("Attributes", a, 0)

----------------------------------------------------------------------------
(* Caller-supplied functions, named by an identifier and applied by a table *)

\* Filter functions: the request paths each one accepts
FilterIds == {"fAll", "fOnlyA", "fNone"}
FilterApply(f, r) ==
    CASE f = "fAll" -> TRUE
      [] f = "fOnlyA" -> r.path = "a"
      [] OTHER -> FALSE

\* PublicEndpointFn functions; "nil" is the nil function
PublicFnApply(f, r) ==
    CASE f = "peRemoteA" -> r.path = "a" /\ r.ctx.span.remote
      [] OTHER -> FALSE

\* MetricAttributesFn functions
MetricFnApply(f, r) ==
    CASE f = "mfPath" -> IF r.path = "a" THEN <<"x", "y">> ELSE <<"y", "y">>
      [] OTHER -> <<>>

\* span name formatters
defaultHandlerFormatter(operation, r) == operation

FormatterApply(f, operation, r) ==
    CASE f = "default" -> defaultHandlerFormatter(operation, r)
      [] OTHER -> operation

----------------------------------------------------------------------------
(* config.go: the functional options and newConfig *)

Option(name, arg) == [opt |-> name, arg |-> arg]

WithTracerProvider(c, tp) == [c EXCEPT !.TracerProvider = tp]
WithMeterProvider(c, mp) == [c EXCEPT !.MeterProvider = mp]
WithPublicEndpoint(c) == [c EXCEPT !.PublicEndpoint = TRUE]
WithPublicEndpointFn(c, fn) == [c EXCEPT !.PublicEndpointFn = fn]
WithPropagators(c, ps) == [c EXCEPT !.Propagators = ps]
WithSpanOptions(c, opts) == [c EXCEPT !.SpanStartOptions = @ \o opts]
WithFilter(c, f) == [c EXCEPT !.Filters = Append(@, f)]
WithSpanNameFormatter(c, fn) == [c EXCEPT !.SpanNameFormatter = fn]
WithServerName(c, server) == [c EXCEPT !.ServerName = server]
WithMetricAttributesFn(c, fn) == [c EXCEPT !.MetricAttributesFn = fn]

\* the span start options an option argument stands for
SpanOptionArg(arg) ==
    CASE arg = "kindServer" -> <<WithSpanKindServer>>
      [] arg = "userAttr" -> <<WithAttributes("user")>>
      [] OTHER -> <<>>

ApplyOption(c, o) ==
    CASE o.opt = "WithTracerProvider" -> WithTracerProvider(c, o.arg)
      [] o.opt = "WithMeterProvider" -> WithMeterProvider(c, o.arg)
      [] o.opt = "WithPublicEndpoint" -> WithPublicEndpoint(c)
      [] o.opt = "WithPublicEndpointFn" -> WithPublicEndpointFn(c, o.arg)
      [] o.opt = "WithPropagators" -> WithPropagators(c, o.arg)
      [] o.opt = "WithSpanOptions" -> WithSpanOptions(c, SpanOptionArg(o.arg))
      [] o.opt = "WithFilter" -> WithFilter(c, o.arg)
      [] o.opt = "WithSpanNameFormatter" -> WithSpanNameFormatter(c, o.arg)
      [] o.opt = "WithServerName" -> WithServerName(c, o.arg)
      [] o.opt = "WithMetricAttributesFn" -> WithMetricAttributesFn(c, o.arg)
      [] OTHER -> c

RECURSIVE ApplyOptions(_, _)
ApplyOptions(c, opts) ==
    IF opts = <<>> THEN c
    ELSE ApplyOptions(ApplyOption(c, Head(opts)), Tail(opts))

\* otel.GetTextMapPropagator()
GlobalPropagator == "tracecontext"

\* newConfig: gmp is what otel.GetMeterProvider() returns when newConfig runs
newConfig(opts, gmp) ==
    LET c0 == [ServerName |-> "",
               Tracer |-> NilTracer,
               Meter |-> newMeter("nil"),
               Propagators |-> GlobalPropagator,
               SpanStartOptions |-> <<>>,
               PublicEndpoint |-> FALSE,
               PublicEndpointFn |-> "nil",
               ReadEvent |-> FALSE,
               WriteEvent |-> FALSE,
               Filters |-> <<>>,
               MetricAttributesFn |-> "nil",
               SpanNameFormatter |-> "nil",
               TracerProvider |-> "nil",
               MeterProvider |-> gmp]
        c1 == ApplyOptions(c0, opts)
        c2 == IF c1.TracerProvider # "nil"
              THEN [c1 EXCEPT !.Tracer = newTracer(c1.TracerProvider)]
              ELSE c1
    IN  [c2 EXCEPT !.Meter = newMeter(c2.MeterProvider)]

----------------------------------------------------------------------------
(* handler.go: the handler struct, configure and NewMiddleware *)

\* the zero handler NewMiddleware starts from
ZeroHandler(operation) ==
    [operation |-> operation,
     server |-> "",
     tracer |-> NilTracer,
     propagators |-> "nil",
     spanStartOptions |-> <<>>,
     readEvent |-> FALSE,
     writeEvent |-> FALSE,
     filters |-> <<>>,
     spanNameFormatter |-> "nil",
     publicEndpoint |-> FALSE,
     publicEndpointFn |-> "nil",
     metricAttributesFn |-> "nil",
     semconv |-> [meter |-> newMeter("nil")]]

\* handler.configure
configure(h, c) ==
    [h EXCEPT !.tracer = c.Tracer,
              !.propagators = c.Propagators,
              !.spanStartOptions = c.SpanStartOptions,
              !.readEvent = c.ReadEvent,
              !.writeEvent = c.WriteEvent,
              !.filters = c.Filters,
              !.spanNameFormatter = c.SpanNameFormatter,
              !.publicEndpoint = c.PublicEndpoint,
              !.publicEndpointFn = c.PublicEndpointFn,
              !.server = c.ServerName,
              !.semconv = [meter |-> c.Meter],
              !.metricAttributesFn = c.MetricAttributesFn]

\* the options NewMiddleware puts before the caller's
defaultOpts ==
    <<Option("WithSpanOptions", "kindServer"),
      Option("WithSpanNameFormatter", "default")>>

----------------------------------------------------------------------------
(* time_ctx.go and the labeler carrier: values carried by a request context *)

\* the zero time.Time
ZeroTime == 0

\* mutant: a start time already carried by the parent is kept
ContextWithStartTimeKeepFirst(parent, start) ==
    IF parent.start = Nil THEN [parent EXCEPT !.start = Some(start)] ELSE parent

ContextWithStartTime(parent, start) == [parent EXCEPT !.start = Some(start)]

StartTimeFromContext(ctx) == IF ctx.start = Nil THEN ZeroTime ELSE ctx.start[1]

\* the labeler objects a cycle can hold a reference to: "up" was put into the
\* inbound context by the caller, "fresh" is created by the wrapper, "own" is
\* created by the downstream handler when its context carries none
LabelerIds == {"up", "fresh", "own"}

\* LabelerFromContext: <<labeler, found>>
LabelerFromContext(ctx, fresh) ==
    IF ctx.labeler = Nil THEN <<fresh, FALSE>> ELSE <<ctx.labeler[1], TRUE>>

ContextWithLabeler(parent, l) == [parent EXCEPT !.labeler = Some(l)]

----------------------------------------------------------------------------
(* internal/request: the byte-counting wrappers *)

DefaultStatus == 200

\* the error a wrapper keeps: the first one that is not end-of-stream
firstError(kept, err) ==
    IF kept = NoErr /\ err # NoErr /\ err # "EOF" THEN err ELSE kept

NewBodyWrapper == [read |-> 0, err |-> NoErr]

\* BodyWrapper.Read, the underlying read having returned (n, err)
BodyWrapperRead(bw, n, err) ==
    [bw EXCEPT !.read = @ + n, !.err = firstError(@, err)]

NewRespWriterWrapper ==
    [written |-> 0, statusCode |-> DefaultStatus, wroteHeader |-> FALSE,
     err |-> NoErr]

\* RespWriterWrapper.WriteHeader
RespWriteHeader(w, code) ==
    IF w.wroteHeader THEN w
    ELSE [w EXCEPT !.statusCode = code, !.wroteHeader = TRUE]

\* RespWriterWrapper.Write, the underlying write having returned (n, err)
RespWrite(w, n, err) ==
    LET w1 == RespWriteHeader(w, DefaultStatus)
    IN  [w1 EXCEPT !.written = @ + n, !.err = firstError(@, err)]

----------------------------------------------------------------------------
(* internal/semconv: attribute and status helpers *)

\* HTTPServer.RequestTraceAttrs: derived from the request alone
RequestTraceAttrs(server, r) == r.path

\* HTTPServer.Status: 5xx and invalid codes are errors
Status(code) == IF code < 100 \/ code >= 500 THEN "Error" ELSE "Unset"

\* HTTPServer.ResponseTraceAttrs: an error attribute only for a captured error
ResponseTraceAttrs(t) ==
    [status |-> t.StatusCode,
     readBytes |-> t.ReadBytes,
     readError |-> IF t.ReadError = NoErr THEN "" ELSE t.ReadError,
     wroteBytes |-> t.WriteBytes,
     writeError |-> IF t.WriteError = NoErr THEN "" ELSE t.WriteError]

----------------------------------------------------------------------------
(* handler.go: the steps of serveHTTP *)

\* mutant: every filter is evaluated before the verdict is used
evaluatedFiltersAll(filters, r, i) == [j \in 1..Len(filters) |-> j]

\* lines 71-76: the filters the loop calls, by index, in the order of the calls
RECURSIVE evaluatedFilters(_, _, _)
evaluatedFilters(filters, r, i) ==
    IF i > Len(filters) THEN <<>>
    ELSE <<i>> \o (IF FilterApply(filters[i], r)
                   THEN evaluatedFilters(filters, r, i + 1) ELSE <<>>)

\* mutant: only the first filter is consulted
firstRejectHeadOnly(filters, r, i) ==
    IF i > Len(filters) THEN 0
    ELSE IF ~FilterApply(filters[i], r) THEN i
    ELSE 0

\* lines 71-76: the index of the first filter that rejects r, 0 when none does
RECURSIVE firstReject(_, _, _)
firstReject(filters, r, i) ==
    IF i > Len(filters) THEN 0
    ELSE IF ~FilterApply(filters[i], r) THEN i
    ELSE firstReject(filters, r, i + 1)

\* line 79: m.propagators.Extract(r.Context(), HeaderCarrier(r.Header))
Extract(prop, ctx, r) ==
    IF prop = "tracecontext" /\ r.traceparent
    THEN [ctx EXCEPT !.span = RemoteSpan]
    ELSE ctx

\* line 84: the public-endpoint condition
isPublicEndpoint(h, r, ctx) ==
    h.publicEndpoint
    \/ (h.publicEndpointFn # "nil"
        /\ PublicFnApply(h.publicEndpointFn, [r EXCEPT !.ctx = ctx]))

\* mutant: the extracted context is linked whenever it is valid
trustOptsAnyValid(h, r, ctx) ==
    LET opts == <<WithAttributes(RequestTraceAttrs(h.server, r))>>
    IN  IF isPublicEndpoint(h, r, ctx)
        THEN IF ctx.span.valid
             THEN opts \o <<WithNewRoot, WithLinks(ctx.span)>>
             ELSE Append(opts, WithNewRoot)
        ELSE opts

\* lines 80-89: the span start options after the trust-boundary decision
trustOpts(h, r, ctx) ==
    LET opts == <<WithAttributes(RequestTraceAttrs(h.server, r))>>
    IN  IF isPublicEndpoint(h, r, ctx)
        THEN IF ctx.span.valid /\ ctx.span.remote
             THEN opts \o <<WithNewRoot, WithLinks(ctx.span)>>
             ELSE Append(opts, WithNewRoot)
        ELSE opts

\* mutant: the span is looked for in the extracted context
selectTracerExtracted(h, r, gtp) ==
    IF h.tracer # NilTracer THEN h.tracer
    ELSE IF Extract(h.propagators, r.ctx, r).span.valid
         THEN newTracer(Extract(h.propagators, r.ctx, r).span.tp)
         ELSE newTracer(gtp)

\* mutant: the default provider is the one fetched when NewMiddleware ran
selectTracerCached(h, r, gtp) ==
    IF h.tracer # NilTracer THEN h.tracer
    ELSE IF r.ctx.span.valid THEN newTracer(r.ctx.span.tp)
    ELSE newTracer(atBuild.tp)

\* lines 91-98: gtp is what otel.GetTracerProvider() returns at this point
selectTracer(h, r, gtp) ==
    IF h.tracer # NilTracer THEN h.tracer
    ELSE IF r.ctx.span.valid THEN newTracer(r.ctx.span.tp)
    ELSE newTracer(gtp)

\* lines 100-103: the options with the start-time override, if any
startTimeOpts(opts, ctx) ==
    IF StartTimeFromContext(ctx) # ZeroTime
    THEN Append(opts, WithTimestamp(StartTimeFromContext(ctx)))
    ELSE opts

\* mutant: the override is not taken as the timer origin
timerOriginEntry(entry, ctx) == entry

\* lines 69, 100-103: the timer origin; entry is time.Now() at line 69
timerOrigin(entry, ctx) ==
    IF StartTimeFromContext(ctx) # ZeroTime
    THEN StartTimeFromContext(ctx)
    ELSE entry

\* line 105: the option list handed to tracer.Start
startOpts(h, r, ctx) == startTimeOpts(trustOpts(h, r, ctx), ctx)

\* tracer.Start: the span, as the SDK builds it from the context and options
StartSpan(tracer, ctx, name, opts) ==
    [tracer |-> tracer,
     name |-> name,
     from |-> ctx.span,
     opts |-> opts,
     status |-> "Unset",
     statusSet |-> FALSE,
     attrs |-> Nil,
     events |-> <<>>,
     ended |-> 0]

\* tracer.Start: the context it returns carries the new span
ContextWithSpan(ctx, tracer) ==
    [ctx EXCEPT !.span = [valid |-> TRUE, remote |-> FALSE,
                          tp |-> tracer.provider, id |-> "server"]]

\* what the SDK makes of the options
HasOpt(opts, o) == \E i \in 1..Len(opts) : opts[i].o = o
SpanIsNewRoot(sp) == HasOpt(sp.opts, "NewRoot")
SpanLinks(sp) == SelectSeq(sp.opts, LAMBDA x : x.o = "Links")
SpanParent(sp) == IF SpanIsNewRoot(sp) THEN NoSpan ELSE sp.from

\* mutant: a labeler the wrapper created is not put into the context
downstreamCtxNoInject(ctx) == ctx

\* lines 145-148: the context passed downstream
downstreamCtx(ctx) ==
    LET lf == LabelerFromContext(ctx, "fresh")
    IN  IF ~lf[2] THEN ContextWithLabeler(ctx, lf[1]) ELSE ctx

\* lines 198-204
metricAttributesFromRequest(h, r) ==
    IF h.metricAttributesFn # "nil"
    THEN MetricFnApply(h.metricAttributesFn, r)
    ELSE <<>>

\* mutant: the function's output is put before the labeler's entries
additionalAttributesFnFirst(h, r, bag) == metricAttributesFromRequest(h, r) \o bag

\* line 168
additionalAttributes(h, r, bag) == bag \o metricAttributesFromRequest(h, r)

\* mutant: the read error is taken from the response writer wrapper
responseTelemetryWriterError(bw, rww) ==
    [StatusCode |-> rww.statusCode,
     ReadBytes |-> bw.read,
     ReadError |-> rww.err,
     WriteBytes |-> rww.written,
     WriteError |-> rww.err]

\* lines 156-162: the telemetry handed to ResponseTraceAttrs
responseTelemetry(bw, rww) ==
    [StatusCode |-> rww.statusCode,
     ReadBytes |-> bw.read,
     ReadError |-> bw.err,
     WriteBytes |-> rww.written,
     WriteError |-> rww.err]

\* mutant: the status is not taken from the response writer wrapper
serverMetricDataDefaultStatus(h, c, t) ==
    [ServerName |-> h.server,
     meter |-> h.semconv.meter,
     ResponseSize |-> c.rww.written,
     RequestSize |-> c.bw.read,
     ElapsedTime |-> t - c.reqStartTime,
     StatusCode |-> DefaultStatus,
     AdditionalAttributes |-> additionalAttributes(h, c.r, c.bags[c.labeler])]

\* mutant: the request size is reported as the response size
serverMetricDataSwappedSizes(h, c, t) ==
    [ServerName |-> h.server,
     meter |-> h.semconv.meter,
     ResponseSize |-> c.bw.read,
     RequestSize |-> c.rww.written,
     ElapsedTime |-> t - c.reqStartTime,
     StatusCode |-> c.rww.statusCode,
     AdditionalAttributes |-> additionalAttributes(h, c.r, c.bags[c.labeler])]

\* lines 164-179: the measurement handed to RecordMetrics
serverMetricData(h, c, t) ==
    [ServerName |-> h.server,
     meter |-> h.semconv.meter,
     ResponseSize |-> c.rww.written,
     RequestSize |-> c.bw.read,
     ElapsedTime |-> t - c.reqStartTime,
     StatusCode |-> c.rww.statusCode,
     AdditionalAttributes |-> additionalAttributes(h, c.r, c.bags[c.labeler])]

----------------------------------------------------------------------------
(* The state of one request cycle *)

NoRequest ==
    [path |-> "a", ctx |-> EmptyCtx, traceparent |-> FALSE, body |-> "NoBody",
     len |-> 0, params |-> "{}"]

\* no call of next was made
NoCall == [w |-> "none", params |-> "{}"]

NoSpanRecord == StartSpan(NilTracer, EmptyCtx, "", <<>>)

IdleCycle ==
    [pc |-> "idle",             \* idle, next, collect, metrics, deferred, done
     r |-> NoRequest,           \* the inbound request
     entry |-> 0,               \* time.Now() at line 69
     gtp |-> "nil",             \* otel.GetTracerProvider() during the cycle
     gmp |-> "nil",             \* otel.GetMeterProvider() during the cycle
     reqStartTime |-> 0,        \* the timer origin
     rejectedBy |-> 0,          \* index of the filter that rejected, 0 if none
     evaluated |-> 0,           \* number of filters evaluated
     ectx |-> EmptyCtx,         \* the context Extract returned (line 79)
     span |-> NoSpanRecord,     \* the span of the cycle
     started |-> 0,             \* calls of tracer.Start
     ctx |-> EmptyCtx,          \* the context passed downstream
     labeler |-> "fresh",       \* the labeler the wrapper holds
     bags |-> [l \in LabelerIds |-> <<>>],
     bw |-> NewBodyWrapper,
     rww |-> NewRespWriterWrapper,
     wrapped |-> FALSE,         \* r.Body was replaced by the body wrapper
     left |-> 0,                \* bytes left in the underlying body
     calls |-> 0,               \* invocations of the downstream handler
     ops |-> 0,                 \* operations the downstream handler made
     panicking |-> FALSE,       \* the downstream handler panicked
     propagated |-> FALSE,      \* the panic reached the framework
     log |-> <<>>,              \* what the downstream handler did, in order
     metrics |-> <<>>,          \* the measurements handed to RecordMetrics
     recordedAt |-> 0,          \* the clock when RecordMetrics was called
     sets |-> <<>>,             \* the start times the caller set, in order
     passed |-> NoCall,         \* the writer and path parameters given to next
     evalLog |-> <<>>]          \* the filters evaluated, by index, in order

\* entries a labeler put into the inbound context by the caller already holds
UpstreamBag == <<"y">>

\* mutant: the filters are checked after the body and the writer were wrapped
\* and the context extracted
RejectedAfterWrap(cyc, r, rej) ==
    [cyc EXCEPT !.pc = "done", !.r = r, !.entry = now, !.reqStartTime = now,
                !.rejectedBy = rej, !.evaluated = rej,
                !.evalLog = evaluatedFilters(m.filters, r, 1),
                !.ectx = Extract(m.propagators, r.ctx, r),
                !.wrapped = (r.body # "nil" /\ r.body # "NoBody")]

\* lines 69-76: the cycle ends at the first rejecting filter
Rejected(cyc, r, rej) ==
    [cyc EXCEPT !.pc = "done", !.r = r, !.entry = now, !.reqStartTime = now,
                !.rejectedBy = rej, !.evaluated = rej,
                !.evalLog = evaluatedFilters(m.filters, r, 1)]

\* mutant: next gets the inbound request, not r.WithContext(ctx)
nextCallInboundRequest(w, r, ctx) == [w |-> w, ctx |-> r.ctx, params |-> r.params]

\* line 150: next(w, r.WithContext(ctx), pathParams), w being the writer
\* httpsnoop.Wrap returned at lines 130-143
nextCall(w, r, ctx) == [w |-> w, ctx |-> ctx, params |-> r.params]

\* lines 69-150: the cycle up to the call of next
Entered(cyc, r, gtp) ==
    LET ectx == Extract(m.propagators, r.ctx, r)
        tracer == selectTracer(m, r, gtp)
        opts == startOpts(m, r, ectx)
        name == FormatterApply(m.spanNameFormatter, m.operation, r)
        sctx == ContextWithSpan(ectx, tracer)
        lf == LabelerFromContext(sctx, "fresh")
        call == nextCall("wrapped", r, downstreamCtx(sctx))
    IN  [cyc EXCEPT !.pc = "next",
                    !.r = r,
                    !.entry = now,
                    !.gtp = gtp,
                    !.gmp = globalMP,
                    !.reqStartTime = timerOrigin(now, ectx),
                    !.evaluated = Len(m.filters),
                    !.evalLog = evaluatedFilters(m.filters, r, 1),
                    !.ectx = ectx,
                    !.span = StartSpan(tracer, ectx, name, opts),
                    !.started = @ + 1,
                    !.ctx = call.ctx,
                    !.passed = [w |-> call.w, params |-> call.params],
                    !.labeler = lf[1],
                    !.bags = [@ EXCEPT !["up"] =
                                 IF r.ctx.labeler # Nil THEN UpstreamBag ELSE <<>>],
                    !.wrapped = (r.body # "nil" /\ r.body # "NoBody"),
                    !.left = r.len,
                    !.calls = @ + 1]

\* serveHTTP from its entry to the call of next, or to the early return
ServeHTTP(c, r) ==
    /\ built
    /\ cy[c].pc = "idle"
    /\ LET rej == firstReject(m.filters, r, 1)
       IN  cy' = [cy EXCEPT ![c] =
                     IF rej # 0 THEN Rejected(@, r, rej)
                     ELSE Entered(@, r, globalTP)]
    /\ UNCHANGED <<globalTP, globalMP, nreg, built, hostOpts, atBuild, m, now>>

\* an entry of the log of the downstream handler's operations
Op(k, n, e) == [k |-> k, n |-> n, e |-> e]

\* the wrappers call their record function after a successful operation, with
\* the byte count reached
recordCalled(err) == err = NoErr
recordArg(total, n) == total + n

\* mutant: the events are added whether enabled or not
withEventAlways(sp, enabled, name, n) ==
    [sp EXCEPT !.events = Append(@, <<name, n>>)]

\* the span after an event was added, when events of that kind are recorded
withEvent(sp, enabled, name, n) ==
    IF enabled THEN [sp EXCEPT !.events = Append(@, <<name, n>>)] ELSE sp

\* the downstream handler reads the request body: the underlying read
\* returns (n, err)
HandlerRead(c, n, err) ==
    /\ cy[c].pc = "next"
    /\ cy[c].ops < MaxOps
    /\ cy[c].r.body = "stream"
    /\ n <= cy[c].left
    /\ (err = "EOF") => (n = cy[c].left)
    /\ cy' = [cy EXCEPT ![c].ops = @ + 1,
                        ![c].log = Append(@, Op("read", n, err)),
                        ![c].left = @ - n,
                        ![c].bw = IF cy[c].wrapped
                                  THEN BodyWrapperRead(@, n, err) ELSE @,
                        ![c].span = IF cy[c].wrapped /\ recordCalled(err)
                                    THEN withEvent(@, m.readEvent, "read",
                                                   recordArg(cy[c].bw.read, n))
                                    ELSE @]
    /\ UNCHANGED <<globalTP, globalMP, nreg, built, hostOpts, atBuild, m, now>>

\* mutant: the response writer wrapper is kept in the handler, so a write of
\* one cycle counts in every cycle that is in its downstream handler
HandlerWriteShared(c, n, err) ==
    /\ cy[c].pc = "next"
    /\ cy[c].ops < MaxOps
    /\ cy' = [d \in DOMAIN cy |->
                IF d = c
                THEN [cy[d] EXCEPT !.ops = @ + 1,
                                   !.log = Append(@, Op("write", n, err)),
                                   !.rww = RespWrite(@, n, err)]
                ELSE IF cy[d].pc = "next"
                THEN [cy[d] EXCEPT !.rww = RespWrite(@, n, err)]
                ELSE cy[d]]
    /\ UNCHANGED <<globalTP, globalMP, nreg, built, hostOpts, atBuild, m, now>>

\* the downstream handler writes to the response: the underlying write
\* returns (n, err)
HandlerWrite(c, n, err) ==
    /\ cy[c].pc = "next"
    /\ cy[c].ops < MaxOps
    /\ cy' = [cy EXCEPT ![c].ops = @ + 1,
                        ![c].log = Append(@, Op("write", n, err)),
                        ![c].rww = RespWrite(@, n, err),
                        ![c].span = IF recordCalled(err)
                                    THEN withEvent(@, m.writeEvent, "write",
                                                   recordArg(cy[c].rww.written, n))
                                    ELSE @]
    /\ UNCHANGED <<globalTP, globalMP, nreg, built, hostOpts, atBuild, m, now>>

\* the downstream handler sets the status code
HandlerWriteHeader(c, code) ==
    /\ cy[c].pc = "next"
    /\ cy[c].ops < MaxOps
    /\ cy' = [cy EXCEPT ![c].ops = @ + 1,
                        ![c].log = Append(@, Op("header", code, NoErr)),
                        ![c].rww = RespWriteHeader(@, code)]
    /\ UNCHANGED <<globalTP, globalMP, nreg, built, hostOpts, atBuild, m, now>>

\* the downstream handler adds an attribute to the labeler of its context
HandlerAddLabel(c, a) ==
    /\ cy[c].pc = "next"
    /\ cy[c].ops < MaxOps
    /\ LET l == LabelerFromContext(cy[c].ctx, "own")[1]
       IN  cy' = [cy EXCEPT ![c].ops = @ + 1,
                            ![c].log = Append(@, Op("label", 0, a)),
                            ![c].bags[l] = Append(@, a)]
    /\ UNCHANGED <<globalTP, globalMP, nreg, built, hostOpts, atBuild, m, now>>

\* mutant: the metrics are recorded before the span gets its status and
\* response attributes
HandlerReturnToMetrics(c) ==
    /\ cy[c].pc = "next"
    /\ cy' = [cy EXCEPT ![c].pc = "metrics"]
    /\ UNCHANGED <<globalTP, globalMP, nreg, built, hostOpts, atBuild, m, now>>

\* line 150: next returns
HandlerReturn(c) ==
    /\ cy[c].pc = "next"
    /\ cy' = [cy EXCEPT ![c].pc = "collect"]
    /\ UNCHANGED <<globalTP, globalMP, nreg, built, hostOpts, atBuild, m, now>>

\* mutant: span.End() is called after next instead of deferred
HandlerPanicNoDefer(c) ==
    /\ cy[c].pc = "next"
    /\ cy' = [cy EXCEPT ![c].pc = "done", ![c].panicking = TRUE,
                        ![c].propagated = TRUE]
    /\ UNCHANGED <<globalTP, globalMP, nreg, built, hostOpts, atBuild, m, now>>

\* line 150: next panics; serveHTTP unwinds to its deferred call
HandlerPanic(c) ==
    /\ cy[c].pc = "next"
    /\ cy' = [cy EXCEPT ![c].pc = "deferred", ![c].panicking = TRUE]
    /\ UNCHANGED <<globalTP, globalMP, nreg, built, hostOpts, atBuild, m, now>>

\* lines 153-162: span.SetStatus and span.SetAttributes
Collect(c) ==
    /\ cy[c].pc = "collect"
    /\ cy' = [cy EXCEPT ![c].pc = "metrics",
                        ![c].span.status = Status(cy[c].rww.statusCode),
                        ![c].span.statusSet = TRUE,
                        ![c].span.attrs =
                            Some(ResponseTraceAttrs(
                                     responseTelemetry(cy[c].bw, cy[c].rww)))]
    /\ UNCHANGED <<globalTP, globalMP, nreg, built, hostOpts, atBuild, m, now>>

\* lines 164-179: m.semconv.RecordMetrics
RecordMetrics(c) ==
    /\ cy[c].pc = "metrics"
    /\ cy' = [cy EXCEPT ![c].pc = "deferred",
                        ![c].metrics = Append(@, serverMetricData(m, cy[c], now)),
                        ![c].recordedAt = now]
    /\ UNCHANGED <<globalTP, globalMP, nreg, built, hostOpts, atBuild, m, now>>

\* line 106: the deferred span.End(), then the return or the panic goes on
SpanEnd(c) ==
    /\ cy[c].pc = "deferred"
    /\ cy' = [cy EXCEPT ![c].pc = "done",
                        ![c].span.ended = @ + 1,
                        ![c].propagated = cy[c].panicking]
    /\ UNCHANGED <<globalTP, globalMP, nreg, built, hostOpts, atBuild, m, now>>

----------------------------------------------------------------------------
(* The caller of the middleware prepares the context of the request it is
   about to pass in *)

\* the caller calls ContextWithStartTime on the request's context
CallerSetsStartTime(c, t) ==
    /\ cy[c].pc = "idle"
    /\ Len(cy[c].sets) < MaxSets
    /\ cy' = [cy EXCEPT ![c].r.ctx = ContextWithStartTime(@, t),
                        ![c].sets = Append(@, t)]
    /\ UNCHANGED <<globalTP, globalMP, nreg, built, hostOpts, atBuild, m, now>>

\* the caller puts a labeler into the request's context
CallerSetsLabeler(c) ==
    /\ cy[c].pc = "idle"
    /\ cy[c].r.ctx.labeler = Nil
    /\ cy' = [cy EXCEPT ![c].r.ctx = ContextWithLabeler(@, "up")]
    /\ UNCHANGED <<globalTP, globalMP, nreg, built, hostOpts, atBuild, m, now>>

\* the caller's own span is put into the request's context
CallerSetsSpan(c) ==
    /\ cy[c].pc = "idle"
    /\ cy[c].r.ctx.span = NoSpan
    /\ cy' = [cy EXCEPT ![c].r.ctx.span = LocalSpan]
    /\ UNCHANGED <<globalTP, globalMP, nreg, built, hostOpts, atBuild, m, now>>

----------------------------------------------------------------------------
(* The host application and the clock *)

\* NewMiddleware(operation, opts...)
NewMiddleware(opts) ==
    /\ ~built
    /\ m' = configure(ZeroHandler("/"), newConfig(defaultOpts \o opts, globalMP))
    /\ built' = TRUE
    /\ hostOpts' = opts
    /\ atBuild' = [tp |-> globalTP, mp |-> globalMP]
    /\ UNCHANGED <<globalTP, globalMP, nreg, now, cy>>

\* the handler configured from a config whose ReadEvent and WriteEvent fields
\* are set; no option sets them, code of the package does
NewMiddlewareEvents(re, we) ==
    /\ ~built
    /\ m' = configure(ZeroHandler("/"),
                      [newConfig(defaultOpts, globalMP)
                          EXCEPT !.ReadEvent = re, !.WriteEvent = we])
    /\ built' = TRUE
    /\ hostOpts' = <<>>
    /\ atBuild' = [tp |-> globalTP, mp |-> globalMP]
    /\ UNCHANGED <<globalTP, globalMP, nreg, now, cy>>

\* otel.SetTracerProvider
SetTracerProvider(tp) ==
    /\ nreg < MaxReg
    /\ globalTP # tp
    /\ globalTP' = tp
    /\ nreg' = nreg + 1
    /\ UNCHANGED <<globalMP, built, hostOpts, atBuild, m, now, cy>>

\* otel.SetMeterProvider
SetMeterProvider(mp) ==
    /\ nreg < MaxReg
    /\ globalMP # mp
    /\ globalMP' = mp
    /\ nreg' = nreg + 1
    /\ UNCHANGED <<globalTP, built, hostOpts, atBuild, m, now, cy>>

\* time passes while a downstream handler runs
Tick ==
    /\ now < StartClock + MaxTicks
    /\ \E c \in Cycles : cy[c].pc = "next"
    /\ now' = now + 1
    /\ UNCHANGED <<globalTP, globalMP, nreg, built, hostOpts, atBuild, m, cy>>

Init ==
    /\ globalTP = "tpDefault"
    /\ globalMP = "mpDefault"
    /\ nreg = 0
    /\ built = FALSE
    /\ hostOpts = <<>>
    /\ atBuild = [tp |-> "nil", mp |-> "nil"]
    /\ m = ZeroHandler("")
    /\ now = StartClock
    /\ cy = [c \in ConcurrentCycles |-> IdleCycle]

----------------------------------------------------------------------------
(* The inputs: options of the host application, inbound requests *)

OptSeqs(S) == UNION {[1..n -> S] : n \in 0..MaxOpts}

TrustOptions ==
    {Option("WithTracerProvider", "tpCfg"),
     Option("WithMeterProvider", "mpCfg"),
     Option("WithPublicEndpoint", ""),
     Option("WithPublicEndpointFn", "peRemoteA")}

FilterOptions == {Option("WithFilter", f) : f \in FilterIds}

AttrOptions ==
    {Option("WithMetricAttributesFn", "mfPath"),
     Option("WithSpanOptions", "userAttr")}

\* start times a caller may have put into the request context
StartTimes == 0..(StartClock - 1)

Requests(spans, starts, labelers, lens) ==
    {[path |-> p, ctx |-> [span |-> sp, start |-> st, labeler |-> lb],
      traceparent |-> tp, body |-> IF n = 0 THEN "NoBody" ELSE "stream",
      len |-> n, params |-> "{}"] :
        p \in Paths, sp \in spans, st \in starts, lb \in labelers,
        tp \in BOOLEAN, n \in lens}

\* requests that differ in path and body only
PlainRequests == Requests({NoSpan}, {Nil}, {Nil}, 0..MaxChunk)

\* the path parameters the router matched
PathParams == {"{}", "{id:1}"}

\* requests that differ in path, body and path parameters
RoutedRequests ==
    {[r EXCEPT !.params = p] : r \in PlainRequests, p \in PathParams}

\* requests that differ in what their context and trace headers carry
TrustRequests ==
    Requests({NoSpan, LocalSpan}, {Nil} \cup {Some(t) : t \in StartTimes},
             {Nil}, {0})

\* requests whose context carries a labeler or none
LabelRequests == Requests({NoSpan}, {Nil}, {Nil, Some("up")}, {0})

IOResults == (0..MaxChunk) \X ({NoErr} \cup IOErrors)

\* reads and writes that succeed or fail
EventIOResults == (0..MaxChunk) \X {NoErr, "E1"}

\* requests that differ in their body only
EventRequests == {r \in PlainRequests : r.path = "a" /\ ~r.traceparent}

StatusCodes == {404, 503}

\* the steps of serveHTTP after next returned or panicked
Finalize(c) ==
    \/ Collect(c)
    \/ RecordMetrics(c)
    \/ SpanEnd(c)

----------------------------------------------------------------------------
(* Spec: filters, a downstream handler that answers, finalization *)

Next ==
    \/ \E opts \in OptSeqs(FilterOptions) : NewMiddleware(opts)
    \/ \E c \in Cycles :
          \/ \E r \in RoutedRequests : ServeHTTP(c, r)
          \/ \E n \in 0..MaxChunk : HandlerWrite(c, n, NoErr)
          \/ \E code \in StatusCodes : HandlerWriteHeader(c, code)
          \/ HandlerReturn(c)
          \/ HandlerPanic(c)
          \/ Finalize(c)

Spec == Init /\ [][Next]_vars

----------------------------------------------------------------------------
(* SpecTrust: the options and the request contexts that decide the span's
   parent, links, tracer and start time; provider registration; the clock *)

NextTrust ==
    \/ \E opts \in OptSeqs(TrustOptions) : NewMiddleware(opts)
    \/ SetTracerProvider("tpHost")
    \/ SetMeterProvider("mpHost")
    \/ Tick
    \/ \E c \in Cycles :
          \/ \E r \in TrustRequests : ServeHTTP(c, r)
          \/ HandlerReturn(c)
          \/ HandlerPanic(c)
          \/ Finalize(c)

SpecTrust == Init /\ [][NextTrust]_vars

----------------------------------------------------------------------------
(* SpecAttrs: span start options, the labeler and the metric-attributes
   function *)

NextAttrs ==
    \/ \E opts \in OptSeqs(AttrOptions) : NewMiddleware(opts)
    \/ \E c \in Cycles :
          \/ \E r \in LabelRequests : ServeHTTP(c, r)
          \/ \E a \in Attrs : HandlerAddLabel(c, a)
          \/ HandlerReturn(c)
          \/ HandlerPanic(c)
          \/ Finalize(c)

SpecAttrs == Init /\ [][NextAttrs]_vars

----------------------------------------------------------------------------
(* SpecIO: the default middleware; every outcome of the downstream handler's
   reads and writes *)

NextIO ==
    \/ NewMiddleware(<<>>)
    \/ \E c \in Cycles :
          \/ \E r \in PlainRequests : ServeHTTP(c, r)
          \/ \E res \in IOResults : HandlerRead(c, res[1], res[2])
          \/ \E res \in IOResults : HandlerWrite(c, res[1], res[2])
          \/ \E code \in StatusCodes : HandlerWriteHeader(c, code)
          \/ HandlerReturn(c)
          \/ HandlerPanic(c)
          \/ Finalize(c)

SpecIO == Init /\ [][NextIO]_vars

----------------------------------------------------------------------------
(* SpecCtx: the caller builds the request context step by step, then the
   default middleware serves the request *)

NextCtx ==
    \/ NewMiddleware(<<>>)
    \/ \E c \in Cycles :
          \/ \E t \in StartTimes : CallerSetsStartTime(c, t)
          \/ CallerSetsLabeler(c)
          \/ CallerSetsSpan(c)
          \/ ServeHTTP(c, cy[c].r)
          \/ HandlerReturn(c)
          \/ HandlerPanic(c)
          \/ Finalize(c)

SpecCtx == Init /\ [][NextCtx]_vars

----------------------------------------------------------------------------
(* SpecEvents: read and write events enabled or not; reads and writes that
   succeed or fail *)

NextEvents ==
    \/ \E re \in BOOLEAN, we \in BOOLEAN : NewMiddlewareEvents(re, we)
    \/ \E c \in Cycles :
          \/ \E r \in EventRequests : ServeHTTP(c, r)
          \/ \E res \in EventIOResults : HandlerRead(c, res[1], res[2])
          \/ \E res \in EventIOResults : HandlerWrite(c, res[1], res[2])
          \/ HandlerReturn(c)
          \/ HandlerPanic(c)
          \/ Finalize(c)

SpecEvents == Init /\ [][NextEvents]_vars

----------------------------------------------------------------------------
(* SpecConc: two requests in flight on the same default middleware, their
   downstream handlers reading, writing, labelling and returning in any
   interleaving *)

\* requests with a body that differ in the labeler of their context
ConcRequests ==
    {r \in Requests({NoSpan}, {Nil}, {Nil, Some("up")}, {MaxChunk}) :
        r.path = "a" /\ ~r.traceparent}

NextConc ==
    \/ NewMiddleware(<<>>)
    \/ \E c \in ConcurrentCycles :
          \/ \E r \in ConcRequests : ServeHTTP(c, r)
          \/ HandlerRead(c, MaxChunk, NoErr)
          \/ \E err \in {NoErr, "E1"} : HandlerWrite(c, MaxChunk, err)
          \/ HandlerAddLabel(c, "x")
          \/ HandlerReturn(c)
          \/ Finalize(c)

SpecConc == Init /\ [][NextConc]_vars

----------------------------------------------------------------------------
(* What the claims speak about *)

Began(c) == cy[c].pc # "idle"

\* every registered filter accepts the cycle's request
Accepts(c) ==
    \A i \in 1..Len(m.filters) : FilterApply(m.filters[i], cy[c].r)

\* the argument of the last option of that name the host passed, "nil" if none
RECURSIVE Supplied(_, _)
Supplied(opts, name) ==
    IF opts = <<>> THEN "nil"
    ELSE IF opts[Len(opts)].opt = name THEN opts[Len(opts)].arg
    ELSE Supplied(SubSeq(opts, 1, Len(opts) - 1), name)

\* the middleware is a public endpoint for the cycle's request: the static
\* flag, or the predicate applied to the request with the extracted context
Public(c) ==
    \/ m.publicEndpoint
    \/ (m.publicEndpointFn # "nil"
        /\ PublicFnApply(m.publicEndpointFn,
                         [cy[c].r EXCEPT !.ctx = cy[c].ectx]))

\* the timestamp options among the span start options
Timestamps(opts) == SelectSeq(opts, LAMBDA x : x.o = "Timestamp")

\* C1: a request every filter accepts starts exactly one span and ends exactly
\* one; the span is ended also when the downstream handler panics
C1_OneSpanStartedAndEnded ==
    \A c \in Cycles :
        (Began(c) /\ Accepts(c)) =>
            /\ cy[c].started = 1
            /\ cy[c].span.ended <= 1
            /\ (cy[c].pc = "done" => cy[c].span.ended = 1)

C1_Witness ==
    \E c \in Cycles :
        /\ cy[c].pc = "done"
        /\ cy[c].propagated
        /\ Len(m.filters) > 0
        /\ Accepts(c)
        /\ cy[c].span.ended = 1

\* C2: a request some filter rejects starts no span and never reaches the
\* downstream handler; with no filters registered every request is traced
C2_RejectedNotTraced ==
    \A c \in Cycles :
        Began(c) =>
            /\ ~Accepts(c) =>
                  /\ cy[c].started = 0
                  /\ cy[c].calls = 0
                  /\ cy[c].span.ended = 0
                  /\ cy[c].pc = "done"
            /\ m.filters = <<>> => cy[c].started = 1

C2_Witness ==
    \E c \in Cycles :
        /\ Began(c)
        /\ Len(m.filters) = 2
        /\ FilterApply(m.filters[1], cy[c].r)
        /\ ~FilterApply(m.filters[2], cy[c].r)
        /\ cy[c].started = 0
        /\ cy[c].calls = 0

\* C3: in every non-filtered cycle the request metrics are recorded exactly
\* once, also when the downstream handler panics, before the panic reaches
\* the framework
C3_MetricsRecordedOnce ==
    \A c \in Cycles :
        (Began(c) /\ Accepts(c)) =>
            /\ Len(cy[c].metrics) <= 1
            /\ (cy[c].pc = "done" => Len(cy[c].metrics) = 1)

\* C4: the span is a new root exactly when the middleware is a public
\* endpoint (static flag, or the per-request predicate returns true); it has
\* exactly one link, to the extracted context, exactly when it is public and
\* the extracted context is valid and remote; otherwise it is a child of the
\* extracted context and has no link
C4_TrustBoundary ==
    \A c \in Cycles :
        cy[c].started = 1 =>
            LET sp == cy[c].span
                ex == cy[c].ectx.span
                linked == Public(c) /\ ex.valid /\ ex.remote
            IN  /\ SpanIsNewRoot(sp) <=> Public(c)
                /\ Len(SpanLinks(sp)) = IF linked THEN 1 ELSE 0
                /\ linked => SpanLinks(sp)[1].s = ex.id
                /\ ~Public(c) => SpanParent(sp) = ex
                /\ cy[c].r.traceparent => (ex.valid /\ ex.remote)

C4_Witness ==
    \E c \in Cycles :
        /\ cy[c].started = 1
        /\ ~m.publicEndpoint
        /\ Public(c)
        /\ cy[c].r.traceparent
        /\ SpanIsNewRoot(cy[c].span)
        /\ Len(SpanLinks(cy[c].span)) = 1

\* C5: every span start option configured through WithSpanOptions, the
\* default server span kind included, is in the option list handed to the
\* tracer's Start for every non-filtered request
C5_SpanOptionsApplied ==
    \A c \in Cycles :
        cy[c].started = 1 =>
            \A i \in 1..Len(m.spanStartOptions) :
                \E j \in 1..Len(cy[c].span.opts) :
                    cy[c].span.opts[j] = m.spanStartOptions[i]

\* C6 as stated: a start-time override T carried by the request context is
\* the span's start timestamp and the origin of the elapsed-time metric;
\* without one the wall clock at entry is the origin and no timestamp option
\* is passed
C6_AnyOverrideUsed ==
    \A c \in Cycles :
        cy[c].started = 1 =>
            LET st == cy[c].r.ctx.start
                origin == IF st # Nil THEN st[1] ELSE cy[c].entry
            IN  /\ Timestamps(cy[c].span.opts) =
                       IF st # Nil THEN <<WithTimestamp(st[1])>> ELSE <<>>
                /\ cy[c].reqStartTime = origin
                /\ Len(cy[c].metrics) = 1 =>
                      cy[c].metrics[1].ElapsedTime = cy[c].recordedAt - origin

\* C6 amended: the same for an override T that is not the zero time; a zero
\* time override is treated like none
C6_NonZeroOverrideUsed ==
    \A c \in Cycles :
        cy[c].started = 1 =>
            LET st == cy[c].r.ctx.start
                over == st # Nil /\ st[1] # ZeroTime
                origin == IF over THEN st[1] ELSE cy[c].entry
            IN  /\ Timestamps(cy[c].span.opts) =
                       IF over THEN <<WithTimestamp(st[1])>> ELSE <<>>
                /\ cy[c].reqStartTime = origin
                /\ Len(cy[c].metrics) = 1 =>
                      cy[c].metrics[1].ElapsedTime = cy[c].recordedAt - origin

C6_Witness ==
    \E c \in Cycles :
        /\ Len(cy[c].metrics) = 1
        /\ cy[c].r.ctx.start # Nil
        /\ cy[c].r.ctx.start[1] # ZeroTime
        /\ cy[c].r.ctx.start[1] < cy[c].entry
        /\ cy[c].entry < cy[c].recordedAt
        /\ cy[c].metrics[1].ElapsedTime = cy[c].recordedAt - cy[c].r.ctx.start[1]

\* C8: the tracer is the one supplied at construction if any; otherwise the
\* tracer of a valid span in the inbound, unmodified request context (not in
\* the extracted one); otherwise the process-wide default provider's
C8_TracerFallback ==
    \A c \in Cycles :
        cy[c].started = 1 =>
            cy[c].span.tracer =
                IF Supplied(hostOpts, "WithTracerProvider") # "nil"
                THEN newTracer(Supplied(hostOpts, "WithTracerProvider"))
                ELSE IF cy[c].r.ctx.span.valid
                     THEN newTracer(cy[c].r.ctx.span.tp)
                     ELSE newTracer(cy[c].gtp)

C8_Witness ==
    \E c \in Cycles :
        /\ cy[c].started = 1
        /\ Supplied(hostOpts, "WithTracerProvider") = "nil"
        /\ ~cy[c].r.ctx.span.valid
        /\ cy[c].ectx.span.valid
        /\ cy[c].span.tracer = newTracer(cy[c].gtp)

\* C9 as stated: with no provider supplied at construction, the process-wide
\* default provider as it is at request time is the one used for the
\* request's span (when the default tracer provider is the one that applies)
\* and for its metrics
C9_DefaultsAtRequestTime ==
    \A c \in Cycles :
        /\ (cy[c].started = 1
            /\ Supplied(hostOpts, "WithTracerProvider") = "nil"
            /\ ~cy[c].r.ctx.span.valid)
              => cy[c].span.tracer.provider = cy[c].gtp
        /\ (Len(cy[c].metrics) = 1
            /\ Supplied(hostOpts, "WithMeterProvider") = "nil")
              => cy[c].metrics[1].meter.provider = cy[c].gmp

\* C9 amended: with no tracer provider supplied and no valid span in the
\* inbound context, the tracer comes from the process-wide default as it is
\* at request time; with no meter provider supplied, the meter comes from the
\* process-wide default as it was when NewMiddleware ran
C9_TracerAtRequestMeterAtBuild ==
    \A c \in Cycles :
        /\ (cy[c].started = 1
            /\ Supplied(hostOpts, "WithTracerProvider") = "nil"
            /\ ~cy[c].r.ctx.span.valid)
              => cy[c].span.tracer.provider = cy[c].gtp
        /\ (Len(cy[c].metrics) = 1
            /\ Supplied(hostOpts, "WithMeterProvider") = "nil")
              => cy[c].metrics[1].meter.provider = atBuild.mp

C9_Witness ==
    \E c \in Cycles :
        /\ cy[c].started = 1
        /\ Supplied(hostOpts, "WithTracerProvider") = "nil"
        /\ atBuild.tp = "tpDefault"
        /\ cy[c].gtp = "tpHost"
        /\ cy[c].span.tracer.provider = "tpHost"

\* the attributes the downstream handler added to its labeler, in order
RECURSIVE LabelsOf(_)
LabelsOf(log) ==
    IF log = <<>> THEN <<>>
    ELSE IF Head(log).k = "label" THEN <<Head(log).e>> \o LabelsOf(Tail(log))
    ELSE LabelsOf(Tail(log))

\* the errors the underlying reads (k = "read") or writes (k = "write") returned
RECURSIVE ErrorsOf(_, _)
ErrorsOf(log, k) ==
    IF log = <<>> THEN <<>>
    ELSE IF Head(log).k = k /\ Head(log).e # NoErr
         THEN <<Head(log).e>> \o ErrorsOf(Tail(log), k)
         ELSE ErrorsOf(Tail(log), k)

\* the first error of a sequence that is not end-of-stream, NoErr if none
RECURSIVE FirstNonEOF(_)
FirstNonEOF(errs) ==
    IF errs = <<>> THEN NoErr
    ELSE IF Head(errs) # "EOF" THEN Head(errs)
    ELSE FirstNonEOF(Tail(errs))

\* C7: the additional metric attributes of a cycle are the labeler's entries
\* in append order followed by the output of the metric-attributes function in
\* its order, nothing removed; the labeler's entries alone without a function
C7_AdditionalAttributes ==
    \A c \in Cycles :
        Len(cy[c].metrics) = 1 =>
            cy[c].metrics[1].AdditionalAttributes =
                (IF cy[c].r.ctx.labeler # Nil THEN UpstreamBag ELSE <<>>)
                \o LabelsOf(cy[c].log)
                \o (IF Supplied(hostOpts, "WithMetricAttributesFn") = "nil"
                    THEN <<>>
                    ELSE MetricFnApply(Supplied(hostOpts, "WithMetricAttributesFn"),
                                       cy[c].r))

C7_Witness ==
    \E c \in Cycles :
        /\ Len(cy[c].metrics) = 1
        /\ LabelsOf(cy[c].log) = <<"y", "x">>
        /\ Supplied(hostOpts, "WithMetricAttributesFn") # "nil"
        /\ cy[c].metrics[1].AdditionalAttributes = <<"y", "x", "x", "y">>

\* C10: the error a wrapper holds is the first error of its reads (writes)
\* that is not end-of-stream, none if there was none; a later error does not
\* replace it; and the read / write error attached to the span is that error
\* or absent
C10_FirstErrorKept ==
    \A c \in Cycles :
        LET rerr == FirstNonEOF(ErrorsOf(cy[c].log, "read"))
            werr == FirstNonEOF(ErrorsOf(cy[c].log, "write"))
        IN  /\ cy[c].bw.err = rerr
            /\ cy[c].rww.err = werr
            /\ cy[c].span.attrs # Nil =>
                  /\ cy[c].span.attrs[1].readError =
                         IF rerr = NoErr THEN "" ELSE rerr
                  /\ cy[c].span.attrs[1].writeError =
                         IF werr = NoErr THEN "" ELSE werr

C10_Witness ==
    \E c \in Cycles :
        /\ ErrorsOf(cy[c].log, "read") = <<"E1", "E2">>
        /\ cy[c].bw.err = "E1"
        /\ cy[c].span.attrs # Nil
        /\ cy[c].span.attrs[1].readError = "E1"
        /\ cy[c].span.attrs[1].writeError = ""

\* the status the operations of a log leave: the code of the first WriteHeader,
\* the default when a write comes first or nothing sets a status
RECURSIVE StatusOf(_)
StatusOf(log) ==
    IF log = <<>> THEN DefaultStatus
    ELSE IF Head(log).k = "header" THEN Head(log).n
    ELSE IF Head(log).k = "write" THEN DefaultStatus
    ELSE StatusOf(Tail(log))

\* the bytes the operations of kind k of a log moved
RECURSIVE BytesOf(_, _)
BytesOf(log, k) ==
    IF log = <<>> THEN 0
    ELSE (IF Head(log).k = k THEN Head(log).n ELSE 0) + BytesOf(Tail(log), k)

\* C11: the response wrapper's status code is the code of the first
\* WriteHeader call, or 200 when a write came first or no status was set; the
\* span status, the span's status attribute and the metrics use that code
C11_FirstStatusWins ==
    \A c \in Cycles :
        /\ cy[c].rww.statusCode = StatusOf(cy[c].log)
        /\ cy[c].span.statusSet =>
              /\ cy[c].span.status = Status(StatusOf(cy[c].log))
              /\ cy[c].span.attrs[1].status = StatusOf(cy[c].log)
        /\ Len(cy[c].metrics) = 1 =>
              cy[c].metrics[1].StatusCode = StatusOf(cy[c].log)

C11_Witness ==
    \E c \in Cycles :
        /\ Len(cy[c].log) = 2
        /\ cy[c].log[1].k = "header" /\ cy[c].log[1].n = 404
        /\ cy[c].log[2].k = "header" /\ cy[c].log[2].n = 503
        /\ Len(cy[c].metrics) = 1
        /\ cy[c].metrics[1].StatusCode = 404
        /\ cy[c].span.status = "Unset"

\* C12: bytesRead is the sum of the byte counts the body reads returned and
\* bytesWritten the sum of the bytes written, at every point of the cycle;
\* neither ever decreases; a drained body of N bytes gives bytesRead = N; the
\* totals are the request and response size recorded at the end
C12_ByteCounters ==
    /\ [](\A c \in Cycles :
            /\ cy[c].bw.read = BytesOf(cy[c].log, "read")
            /\ cy[c].rww.written = BytesOf(cy[c].log, "write")
            /\ (cy[c].wrapped /\ cy[c].left = 0) => cy[c].bw.read = cy[c].r.len
            /\ Len(cy[c].metrics) = 1 =>
                  /\ cy[c].metrics[1].RequestSize = BytesOf(cy[c].log, "read")
                  /\ cy[c].metrics[1].ResponseSize = BytesOf(cy[c].log, "write"))
    /\ [][\A c \in Cycles :
            /\ cy'[c].bw.read >= cy[c].bw.read
            /\ cy'[c].rww.written >= cy[c].rww.written]_vars

C12_Witness ==
    \E c \in Cycles :
        /\ cy[c].r.len = 1
        /\ cy[c].left = 0
        /\ Len(cy[c].metrics) = 1
        /\ cy[c].metrics[1].RequestSize = 1
        /\ cy[c].metrics[1].ResponseSize = 1

\* C13: StartTimeFromContext gives the zero time when no start time was set
\* and the value of the latest ContextWithStartTime otherwise; a call of
\* ContextWithStartTime leaves every other value of the context as it was
C13_StartTimeCarrier ==
    /\ [](\A c \in Cycles :
            StartTimeFromContext(cy[c].r.ctx) =
                IF cy[c].sets = <<>> THEN ZeroTime
                ELSE cy[c].sets[Len(cy[c].sets)])
    /\ [][\A c \in Cycles :
            cy'[c].sets # cy[c].sets =>
                /\ cy'[c].r.ctx.span = cy[c].r.ctx.span
                /\ cy'[c].r.ctx.labeler = cy[c].r.ctx.labeler]_vars

C13_Witness ==
    \E c \in Cycles :
        /\ cy[c].sets = <<0, 1>>
        /\ StartTimeFromContext(cy[c].r.ctx) = 1
        /\ cy[c].r.ctx.span = LocalSpan
        /\ cy[c].r.ctx.labeler = Some("up")

\* C14: in every cycle no filter rejects, next is called exactly once, with
\* the path parameters of the inbound call, the wrapped response writer, and a
\* request whose context carries the span the cycle started
C14_NextCalledOnce ==
    \A c \in Cycles :
        (Began(c) /\ Accepts(c)) =>
            /\ cy[c].calls = 1
            /\ cy[c].passed.params = cy[c].r.params
            /\ cy[c].passed.w = "wrapped"
            /\ cy[c].ctx.span = ContextWithSpan(cy[c].ectx, cy[c].span.tracer).span
            /\ cy[c].ctx.span.id = "server"

C14_Witness ==
    \E c \in Cycles :
        /\ cy[c].pc = "done"
        /\ Len(m.filters) > 0
        /\ Accepts(c)
        /\ cy[c].r.params = "{id:1}"
        /\ cy[c].passed = [w |-> "wrapped", params |-> "{id:1}"]
        /\ cy[c].calls = 1
        /\ cy[c].ctx.span.id = "server"

\* C15: on every exit path of a cycle no filter rejects, a panic of the
\* downstream handler included, the span has its status and its response
\* attributes when it is ended
C15_FinalizedBeforeEnd ==
    \A c \in Cycles :
        cy[c].span.ended = 1 =>
            /\ cy[c].span.statusSet
            /\ cy[c].span.attrs # Nil
            /\ cy[c].span.status = Status(cy[c].rww.statusCode)

C17_LabelerShared ==
    \A c \in Cycles :
        (Began(c) /\ Accepts(c)) =>
            LET bag == (IF cy[c].r.ctx.labeler # Nil THEN UpstreamBag ELSE <<>>)
                       \o LabelsOf(cy[c].log)
            IN  /\ cy[c].labeler = IF cy[c].r.ctx.labeler # Nil
                                   THEN cy[c].r.ctx.labeler[1] ELSE "fresh"
                /\ cy[c].r.ctx.labeler # Nil =>
                      cy[c].ctx.labeler = cy[c].r.ctx.labeler
                /\ LabelerFromContext(cy[c].ctx, "own") = <<cy[c].labeler, TRUE>>
                /\ cy[c].bags[cy[c].labeler] = bag
                /\ Len(cy[c].metrics) = 1 =>
                      /\ Len(cy[c].metrics[1].AdditionalAttributes) >= Len(bag)
                      /\ SubSeq(cy[c].metrics[1].AdditionalAttributes, 1, Len(bag))
                            = bag

C17_Witness ==
    \E c \in Cycles :
        /\ cy[c].r.ctx.labeler = Nil
        /\ cy[c].labeler = "fresh"
        /\ cy[c].ctx.labeler = Some("fresh")
        /\ LabelsOf(cy[c].log) = <<"x", "y">>
        /\ Len(cy[c].metrics) = 1
        /\ cy[c].metrics[1].AdditionalAttributes = <<"x", "y">>

\* C18: the filters are evaluated in registration order, each on the inbound
\* request, and the evaluation stops at the first filter that returns false:
\* no filter registered after it is evaluated
C18_FiltersInOrder ==
    \A c \in Cycles :
        Began(c) =>
            LET n == Len(m.filters)
                rejecting == {i \in 1..n : ~FilterApply(m.filters[i], cy[c].r)}
                k == IF rejecting = {} THEN n
                     ELSE CHOOSE i \in rejecting : \A j \in rejecting : i <= j
            IN  /\ cy[c].evalLog = [i \in 1..k |-> i]
                /\ cy[c].rejectedBy = IF rejecting = {} THEN 0 ELSE k

C18_Witness ==
    \E c \in Cycles :
        /\ Began(c)
        /\ Len(m.filters) = 2
        /\ ~FilterApply(m.filters[1], cy[c].r)
        /\ cy[c].evalLog = <<1>>
        /\ cy[c].rejectedBy = 1

\* C19: a cycle a filter rejects does nothing but run the filters: the request
\* body is not replaced, the response writer is not wrapped and nothing is
\* written to it, no context is extracted, no span is started and no metric is
\* recorded
C19_RejectedHasNoEffect ==
    \A c \in Cycles :
        (Began(c) /\ ~Accepts(c)) =>
            /\ cy[c].pc = "done"
            /\ ~cy[c].wrapped
            /\ cy[c].bw = NewBodyWrapper
            /\ cy[c].passed = NoCall
            /\ cy[c].rww = NewRespWriterWrapper
            /\ cy[c].log = <<>>
            /\ cy[c].ectx = EmptyCtx
            /\ cy[c].ctx = EmptyCtx
            /\ cy[c].span = NoSpanRecord
            /\ cy[c].metrics = <<>>

C19_Witness ==
    \E c \in Cycles :
        /\ Began(c)
        /\ ~Accepts(c)
        /\ cy[c].r.traceparent
        /\ cy[c].r.body = "stream"
        /\ ~cy[c].wrapped
        /\ cy[c].ectx = EmptyCtx
        /\ cy[c].metrics = <<>>

\* the events the operations of a log leave on the span: one per successful
\* read (write) when read (write) events are enabled, with the bytes read
\* (written) up to and including that operation
RECURSIVE EventsOf(_, _, _, _, _)
EventsOf(log, re, we, nr, nw) ==
    IF log = <<>> THEN <<>>
    ELSE LET op == Head(log)
             r2 == IF op.k = "read" THEN nr + op.n ELSE nr
             w2 == IF op.k = "write" THEN nw + op.n ELSE nw
             ev == IF op.k = "read" /\ re /\ op.e = NoErr
                       THEN << <<"read", r2>> >>
                   ELSE IF op.k = "write" /\ we /\ op.e = NoErr
                       THEN << <<"write", w2>> >>
                   ELSE <<>>
         IN  ev \o EventsOf(Tail(log), re, we, r2, w2)

\* C20: with read (write) events enabled every successful body read (response
\* write) appends one "read" ("write") event with the cumulative byte count to
\* the cycle's span; with them disabled, which is the default, no such event
\* is ever appended
C20_ReadWriteEvents ==
    /\ ~newConfig(defaultOpts, globalMP).ReadEvent
    /\ ~newConfig(defaultOpts, globalMP).WriteEvent
    /\ \A c \in Cycles :
          cy[c].span.events =
              EventsOf(cy[c].log, m.readEvent, m.writeEvent, 0, 0)

C20_Witness ==
    \E c \in Cycles :
        /\ m.writeEvent
        /\ Len(cy[c].log) = 2
        /\ cy[c].log[1] = Op("write", 1, NoErr)
        /\ cy[c].log[2] = Op("write", 1, NoErr)
        /\ cy[c].span.events = << <<"write", 1>>, <<"write", 2>> >>

\* the response writer wrapper the writes of a log leave
RECURSIVE ReplayWriter(_)
ReplayWriter(log) ==
    IF log = <<>> THEN NewRespWriterWrapper
    ELSE LET before == ReplayWriter(SubSeq(log, 1, Len(log) - 1))
             op == log[Len(log)]
         IN  IF op.k = "write" THEN RespWrite(before, op.n, op.e)
             ELSE IF op.k = "header" THEN RespWriteHeader(before, op.n)
             ELSE before

\* the body wrapper the reads of a log leave
RECURSIVE ReplayBody(_)
ReplayBody(log) ==
    IF log = <<>> THEN NewBodyWrapper
    ELSE LET before == ReplayBody(SubSeq(log, 1, Len(log) - 1))
             op == log[Len(log)]
         IN  IF op.k = "read" THEN BodyWrapperRead(before, op.n, op.e)
             ELSE before

\* the cycle's record as its own request, its own handler's operations and
\* the handler's configuration determine it; nothing of another cycle enters
OwnCycle(c) ==
    LET cyc == cy[c]
        r == cyc.r
        ectx == Extract(m.propagators, r.ctx, r)
        lf == LabelerFromContext(ectx, "fresh")
        bag == (IF r.ctx.labeler # Nil THEN UpstreamBag ELSE <<>>)
               \o LabelsOf(cyc.log)
        bags == [l \in LabelerIds |->
                    IF l = lf[1] THEN bag
                    ELSE IF l = "up" /\ r.ctx.labeler # Nil THEN UpstreamBag
                    ELSE <<>>]
        rww == ReplayWriter(cyc.log)
        bw == ReplayBody(cyc.log)
        collected == cyc.pc \in {"metrics", "deferred", "done"} /\ ~cyc.panicking
        recorded == cyc.pc \in {"deferred", "done"} /\ ~cyc.panicking
        span0 == StartSpan(selectTracer(m, r, cyc.gtp), ectx,
                           FormatterApply(m.spanNameFormatter, m.operation, r),
                           startOpts(m, r, ectx))
        span1 == IF collected
                 THEN [span0 EXCEPT
                          !.status = Status(rww.statusCode),
                          !.statusSet = TRUE,
                          !.attrs = Some(ResponseTraceAttrs(
                                             responseTelemetry(bw, rww)))]
                 ELSE span0
        own == [cyc EXCEPT !.rww = rww, !.bw = bw, !.bags = bags,
                           !.labeler = lf[1],
                           !.reqStartTime = timerOrigin(cyc.entry, ectx),
                           !.span = [span1 EXCEPT
                                        !.ended = IF cyc.pc = "done" THEN 1 ELSE 0]]
    IN  [own EXCEPT !.metrics =
            IF recorded THEN <<serverMetricData(m, own, cyc.recordedAt)>>
            ELSE <<>>]

\* C21: under every interleaving of two cycles on the same middleware,
\* serveHTTP leaves the handler's configuration as NewMiddleware built it, a
\* step of one cycle changes nothing of the other, and each cycle's span, byte
\* counters, captured errors, labeler entries and metrics are what its own
\* request and its own handler's reads, writes and labels determine
C21_CyclesShareNothing ==
    /\ [](\A c \in ConcurrentCycles : Began(c) => cy[c] = OwnCycle(c))
    /\ [][built => m' = m]_vars
    /\ [][\A c \in ConcurrentCycles :
             cy'[c] # cy[c] =>
                 \A d \in ConcurrentCycles \ {c} : cy'[d] = cy[d]]_vars

C21_Witness ==
    /\ cy[1].pc = "deferred"
    /\ cy[2].pc = "next"
    /\ cy[1].r.ctx.labeler = Nil
    /\ cy[2].r.ctx.labeler = Some("up")
    /\ cy[1].log = <<Op("write", MaxChunk, NoErr), Op("label", 0, "x")>>
    /\ cy[2].log = <<Op("read", MaxChunk, NoErr), Op("write", MaxChunk, "E1")>>
    /\ Len(cy[1].metrics) = 1
    /\ cy[1].metrics[1].ResponseSize = MaxChunk
    /\ cy[1].metrics[1].RequestSize = 0
    /\ cy[1].metrics[1].AdditionalAttributes = <<"x">>
    /\ cy[2].bw.read = MaxChunk
    /\ cy[2].rww.err = "E1"
    /\ cy[2].bags["up"] = UpstreamBag

====
